---- MODULE Spec2Model ----
(***************************************************************************)
(* Intelephense server: the workspace file discovery (workspace.ts) and    *)
(* the index coordinator (namespace Indexer of server.ts), as a state      *)
(* machine of the single-threaded event loop.  One action is one           *)
(* uninterrupted run of JavaScript: a protocol handler up to its first     *)
(* suspension, or the continuation of an awaited promise / setImmediate    *)
(* callback up to the next suspension.                                     *)
(*                                                                         *)
(* A uri is a sequence of segments, "/" being the path separator, so that  *)
(* prefixes, trailing separators and path components are computed, not     *)
(* assumed.                                                                *)
(***************************************************************************)
EXTENDS Integers, Sequences, FiniteSets, TLC

(* ------------------------------------------------------------------ *)
(* Bounds of the model                                                  *)
(* ------------------------------------------------------------------ *)
MaxRuns == 2
MaxTime == 2
MaxFsEvents == 1
MaxWatchEvents == 1
MaxCacheOps == 3

(* ------------------------------------------------------------------ *)
(* Generic helpers                                                      *)
(* ------------------------------------------------------------------ *)
\* `indexing` holding no token source
NoRun == 0
Undefined == "undefined"

RECURSIVE SeqSum(_)
SeqSum(s) == IF s = <<>> THEN 0 ELSE Head(s) + SeqSum(Tail(s))

Range(s) == {s[i] : i \in 1..Len(s)}

IsPrefix(p, s) == Len(p) <= Len(s) /\ SubSeq(s, 1, Len(p)) = p

RECURSIVE SelectSeqBy(_, _)
\* the subsequence of s whose elements are in set keep, order kept
SelectSeqBy(s, keep) ==
    IF s = <<>> THEN <<>>
    ELSE IF Head(s) \in keep THEN <<Head(s)>> \o SelectSeqBy(Tail(s), keep)
         ELSE SelectSeqBy(Tail(s), keep)

(* ------------------------------------------------------------------ *)
(* The file system universe: the uris that can exist                    *)
(* ------------------------------------------------------------------ *)
FolderA == <<"file:", "a", "/">>
FolderS == <<"file:", "a", "/", "s", "/">>

FileX == <<"file:", "a", "/", "x.php">>
FileY == <<"file:", "a", "/", "s", "/", "y.php">>
FileV == <<"file:", "a", "/", "vendor", "/", "p", "/", "v.php">>
FileB == <<"file:", "a", "/", "big.php">>
\* a file of package p under the vendor directory of folder a/s/
FileW == <<"file:", "a", "/", "s", "/", "vendor", "/", "p", "/", "w.php">>

Uris == {FileX, FileY, FileV, FileB}
FolderUris == {FolderA, FolderS}

\* a fixed enumeration order of the universe: the order a directory
\* traversal reports entries in
UriOrder == <<FileB, FileW, FileY, FileV, FileX>>

\* sizes in bytes, in units of the configured ceiling's scale
SizeOf(u) == IF u = FileB THEN 3 ELSE 1

PhpNames == {"x.php", "y.php", "v.php", "w.php", "big.php"}
TestDirNames == {"test", "tests", "Test", "Tests"}

(* ------------------------------------------------------------------ *)
(* State                                                                *)
(* ------------------------------------------------------------------ *)
VARIABLES
    now,        \* wall clock, ms
    files,      \* file system: uri -> [exists, modified]
    composer,   \* file system: folder uri -> content of its composer.json
    faults,     \* file system: folder uri -> the searches that fail under it
    fsEvents,   \* file system changes made so far (bounded)
    folders,    \* Workspace.folders: sequence of [key, folder], insertion order
    config,     \* the client's settings (server.ts `config`)
    indexing,   \* Indexer.indexing: the run whose token source it holds, or NoRun
    cancelled,  \* token sources on which cancel() was called
    disposed,   \* token sources on which dispose() was called
    runs,       \* the activations of indexWorkspace, by run id
    declined,   \* result of the last indexWorkspace call that declined
    engine,     \* the engine: documents held, and what it was asked to do
    watch,      \* the activations of forgetFiles/indexFiles of a file-watch batch
    cache       \* the cache: its directory on disk, its handle, its operations

vars == <<now, files, composer, faults, cache, fsEvents, folders, config, indexing, cancelled,
          disposed, runs, declined, engine, watch>>

(* ------------------------------------------------------------------ *)
(* workspace.ts: uri helpers                                            *)
(* ------------------------------------------------------------------ *)
\* uriScheme: the text before the first ':'
uriScheme(uri) ==
    IF Len(uri) > 0 /\ uri[1] = "file:" THEN "file"
    ELSE IF Len(uri) > 0 /\ uri[1] = "untitled:" THEN "untitled"
    ELSE ""

\* schemeFileSystemProvider: only the local file system
schemeFileSystemProvider(scheme) == IF scheme = "file" THEN "LocalFileSystem" ELSE Undefined

\* the path of u relative to folder uri f (u lies under f)
RelPath(f, u) == SubSeq(u, Len(f) + 1, Len(u))

BaseName(rel) == rel[Len(rel)]

\* isFileGlob: a glob without a path separator
isFileGlob(glob) == "/" \notin Range(glob)

\* one glob segment against one path segment
SegMatches(pat, seg) == pat = seg \/ (pat = "*.php" /\ seg \in PhpNames)

\* a glob against a relative path; matchBase lets a file glob match the base name
GlobMatches(glob, rel, matchBase) ==
    IF isFileGlob(glob)
    THEN /\ Len(glob) = 1
         /\ (matchBase \/ Len(rel) = 1)
         /\ SegMatches(glob[1], BaseName(rel))
    ELSE /\ Len(glob) = Len(rel)
         /\ \A i \in 1..Len(glob) : SegMatches(glob[i], rel[i])

\* an ignore pattern "<dir>/**" against a relative path
IgnoreMatches(pat, rel) ==
    /\ Len(pat) >= 2
    /\ pat[Len(pat)] = "**"
    /\ IsPrefix(SubSeq(pat, 1, Len(pat) - 1), rel)

VendorIgnore == <<"vendor", "/", "**">>

\* VENDOR_TESTS_GLOB: a test directory anywhere on the path
MatchesVendorTestsGlob(rel) == \E i \in 1..(Len(rel) - 1) : rel[i] \in TestDirNames

(* ------------------------------------------------------------------ *)
(* workspace.ts: namespace FileSearchProvider                           *)
(* ------------------------------------------------------------------ *)
FileInfoOf(u, fsFiles) == [uri |-> u, modified |-> fsFiles[u].modified, size |-> SizeOf(u)]

\* the existing files of the universe in traversal order
ExistingInOrder(fsFiles) == SelectSeqBy(UriOrder, {u \in DOMAIN fsFiles : fsFiles[u].exists})

\* readComposerPackages: the keys of require, then those of require-dev;
\* a missing manifest (ENOENT), any read error and unparsable JSON all give []
readComposerPackages(manifest) ==
    IF manifest.state = "ok" THEN manifest.require \o manifest.requireDev ELSE <<>>

\* a vendorGlobs that lets every package through, claimed or not
vendorGlobPackagesUnguarded(packages, vendorGuard) == packages

RECURSIVE vendorGlobPackages(_, _)
\* vendorGlobs, the filter: the packages not yet in the guard, each claimed as
\* it is passed
vendorGlobPackages(packages, vendorGuard) ==
    IF packages = <<>> THEN <<>>
    ELSE IF Head(packages) \in vendorGuard
         THEN vendorGlobPackages(Tail(packages), vendorGuard)
         ELSE <<Head(packages)>>
              \o vendorGlobPackages(Tail(packages), vendorGuard \cup {Head(packages)})

\* vendorGlobs, the effect on the shared guard set
vendorGuardAfter(packages, vendorGuard) == vendorGuard \cup Range(packages)

\* vendorGlobs, the map: v + '/**/' + '{' + file globs of the associations + '}'
vendorGlobs(packages, associations, vendorGuard) ==
    [i \in 1..Len(vendorGlobPackages(packages, vendorGuard)) |->
        [package  |-> vendorGlobPackages(packages, vendorGuard)[i],
         patterns |-> {associations[j] : j \in {k \in 1..Len(associations) :
                                                  isFileGlob(associations[k])}}]]

\* a vendor glob against a path relative to <folder>/vendor/
VendorGlobMatches(vglob, rel) ==
    /\ Len(rel) >= 3
    /\ rel[1] = vglob.package
    /\ rel[2] = "/"
    /\ \E g \in vglob.patterns : SegMatches(g[1], BaseName(rel))

\* the vendor phase of findFilesInFolder (workspace.ts 252-280)
VendorPhase(folderUri, associations, useComposerJson, vendorGuard, fsFiles, manifest, fault) ==
    IF ~useComposerJson THEN <<>>
    ELSE IF Len(readComposerPackages(manifest)) < 1 THEN <<>>
    ELSE IF "vendor" \in fault THEN <<>>    \* the search rejects: .catch gives []
    ELSE LET vdir  == folderUri \o <<"vendor", "/">>
             globs == vendorGlobs(readComposerPackages(manifest), associations, vendorGuard)
             hit(u) == /\ IsPrefix(vdir, u)
                       /\ \E i \in 1..Len(globs) : VendorGlobMatches(globs[i], RelPath(vdir, u))
                       /\ ~MatchesVendorTestsGlob(RelPath(vdir, u))
             found == SelectSeqBy(ExistingInOrder(fsFiles), {u \in DOMAIN fsFiles : hit(u)})
         IN  [i \in 1..Len(found) |-> FileInfoOf(found[i], fsFiles)]

\* the guard set after the vendor phase of one folder
VendorGuardAfterFolder(useComposerJson, vendorGuard, manifest) ==
    IF useComposerJson /\ Len(readComposerPackages(manifest)) >= 1
    THEN vendorGuardAfter(readComposerPackages(manifest), vendorGuard)
    ELSE vendorGuard

\* a source phase that forgets to ignore vendor/**
SourceIgnoreWithoutVendor(exclude, useComposerJson) == exclude

\* the ignore list of the source phase (workspace.ts 245, 253)
SourceIgnore(exclude, useComposerJson) ==
    IF useComposerJson THEN Append(exclude, VendorIgnore) ELSE exclude

\* the source phase of findFilesInFolder (workspace.ts 282-304)
SourcePhase(folderUri, associations, exclude, useComposerJson, fsFiles, fault) ==
    IF "source" \in fault THEN <<>>         \* the search rejects: .catch gives []
    ELSE
    LET ignore == SourceIgnore(exclude, useComposerJson)
        hit(u) == /\ IsPrefix(folderUri, u)
                  /\ \E i \in 1..Len(associations) :
                        GlobMatches(associations[i], RelPath(folderUri, u), TRUE)
                  /\ ~\E i \in 1..Len(ignore) : IgnoreMatches(ignore[i], RelPath(folderUri, u))
        found == SelectSeqBy(ExistingInOrder(fsFiles), {u \in DOMAIN fsFiles : hit(u)})
    IN  [i \in 1..Len(found) |-> FileInfoOf(found[i], fsFiles)]

\* findFilesInFolder: nothing for a folder that is not on the local file
\* system, else the vendor files followed by the source files
findFilesInFolder(folderUri, associations, exclude, useComposerJson, vendorGuard, fsFiles, manifest, fault) ==
    IF uriScheme(folderUri) # "file" THEN <<>>
    ELSE VendorPhase(folderUri, associations, useComposerJson, vendorGuard, fsFiles, manifest, fault)
         \o SourcePhase(folderUri, associations, exclude, useComposerJson, fsFiles, fault)

RECURSIVE findFiles(_, _, _, _, _, _, _, _)
\* findFiles: the folders in order, one guard set shared by the pass
findFiles(folderSeq, associations, exclude, useComposerJson, vendorGuard, fsFiles, fsComposer, fsFaults) ==
    IF folderSeq = <<>> THEN <<>>
    ELSE LET f == Head(folderSeq).uri
             m == IF f \in DOMAIN fsComposer THEN fsComposer[f]
                  ELSE [state |-> "missing", require |-> <<>>, requireDev |-> <<>>]
             e == IF f \in DOMAIN fsFaults THEN fsFaults[f] ELSE {}
         IN  findFilesInFolder(f, associations, exclude, useComposerJson, vendorGuard,
                               fsFiles, m, e)
             \o findFiles(Tail(folderSeq), associations, exclude, useComposerJson,
                          IF uriScheme(f) = "file"
                          THEN VendorGuardAfterFolder(useComposerJson, vendorGuard, m)
                          ELSE vendorGuard,
                          fsFiles, fsComposer, fsFaults)

\* findFilesInFolder and filterFilesInFolder read a property of `this`
\* (workspace.ts 246, 336), which a plain call in a strict-mode module leaves
\* unbound: the read throws and the enclosing async function rejects.  The
\* read happens only for a folder of the local file system.
DereferencesThis(folderSeq) == \E i \in 1..Len(folderSeq) : uriScheme(folderSeq[i].uri) = "file"

(* ------------------------------------------------------------------ *)
(* server.ts: configuration                                             *)
(* ------------------------------------------------------------------ *)
DefaultMaxSize == 1000000

\* getConfigValue: the value at the key, or the default when the settings
\* (or the key) are absent
getConfigValue(cfg, key, defaultValue) ==
    IF key \in cfg.has THEN cfg.values[key] ELSE defaultValue

RECURSIVE Dedup(_)
\* Array.from(new Set(a)): first occurrences, order kept
Dedup(a) ==
    IF a = <<>> THEN <<>>
    ELSE LET front == Dedup(SubSeq(a, 1, Len(a) - 1))
         IN  IF a[Len(a)] \in Range(front) THEN front ELSE Append(front, a[Len(a)])

PhpGlob == <<"*.php">>

\* the settings object after associations.push('*.php') (server.ts 505-506):
\* the push lands in the client's list when the settings carry one, and in
\* the throw-away default otherwise
ConfigAfterPush(cfg) ==
    IF "files.associations" \in cfg.has
    THEN [cfg EXCEPT !.values["files.associations"] = Append(@, PhpGlob)]
    ELSE cfg

(* ------------------------------------------------------------------ *)
(* The engine (external): the documents it holds                        *)
(* ------------------------------------------------------------------ *)
\* Intelephense.knownDocuments(): the uris held and the instant of the snapshot
knownDocuments(eng, clock) == [documents |-> eng.docs, timestamp |-> clock]

\* Intelephense.discoverSymbols(doc): the document is held afterwards
EngineDiscover(eng, uri) == [eng EXCEPT !.docs = @ \cup {uri}]

\* the number of symbols discoverSymbols finds in (and returns for) a document
SymbolsIn(uri) == CASE uri = FileX -> 1 [] uri = FileY -> 2 [] uri = FileV -> 3 [] OTHER -> 4

\* Intelephense.forget(uri)
EngineForget(eng, uri) == [eng EXCEPT !.docs = @ \ {uri}]

(* ------------------------------------------------------------------ *)
(* server.ts: namespace Indexer                                         *)
(* ------------------------------------------------------------------ *)
RunIds == 1..MaxRuns

ZeroResult == [totalFileCount |-> 0, indexedFileCount |-> 0, forgottenFileCount |-> 0,
               symbolCount |-> 0, wasCancelled |-> FALSE]

\* An activation of indexWorkspace: its position, its locals, its result,
\* and a record of what it did (submitted .. doneBefore), which the code does
\* not keep and no action reads.
UnusedRun == [pc |-> "unused", restart |-> FALSE, folderSnap |-> <<>>,
              associations |-> <<>>, exclude |-> <<>>, useComposerJson |-> FALSE,
              known0 |-> {}, known |-> {}, timestamp |-> 0, maxFileSize |-> 0,
              files |-> <<>>, n |-> 1, forgetList |-> <<>>, k |-> 1,
              result |-> ZeroResult,
              submitted |-> <<>>, unread |-> <<>>, forgets |-> <<>>,
              cancelledAt |-> "", doneBefore |-> {}]

ActivePcs == {"discovering", "reading", "submitting", "forgetting"}

\* isIndexing
isIndexing == indexing # NoRun

\* Array.from(known): the remaining known uris as an array
KnownArray(known) == SelectSeqBy(UriOrder, known)

\* lines 541-545: the result is completed and returned
Finish(r, isCancelled) ==
    [r EXCEPT !.pc = "done", !.result.wasCancelled = isCancelled]

\* an end of loop that starts the forget pass whatever the token says
AfterWalkIgnoringToken(r, isCancelled) ==
    LET r1 == [r EXCEPT !.result.forgottenFileCount = Cardinality(r.known)]
    IN  IF Cardinality(r.known) > 0
        THEN [r1 EXCEPT !.pc = "forgetting", !.forgetList = KnownArray(r.known), !.k = 1]
        ELSE Finish(r1, isCancelled)

\* lines 536-539: after the loop
AfterWalk(r, isCancelled) ==
    LET r1 == [r EXCEPT !.result.forgottenFileCount = Cardinality(r.known)]
    IN  IF ~isCancelled /\ Cardinality(r.known) > 0
        THEN [r1 EXCEPT !.pc = "forgetting", !.forgetList = KnownArray(r.known), !.k = 1]
        ELSE Finish(r1, isCancelled)

RECURSIVE Walk(_, _)
\* a loop that leaves a discovered uri in the remaining-known set
WalkKeepingKnown(r, isCancelled) ==
    IF r.n <= Len(r.files) /\ ~isCancelled
    THEN LET file == r.files[r.n]
         IN  IF file.uri \in r.known
             THEN IF file.modified < r.timestamp
                  THEN Walk([r EXCEPT !.n = @ + 1], isCancelled)
                  ELSE [r EXCEPT !.pc = "reading"]
             ELSE IF file.size > r.maxFileSize
                  THEN Walk([r EXCEPT !.n = @ + 1], isCancelled)
                  ELSE [r EXCEPT !.pc = "reading"]
    ELSE AfterWalk(r, isCancelled)

\* lines 516-529: the loop from its head up to its next suspension, the read
\* of a file (pc "reading"), or past its end
Walk(r, isCancelled) ==
    IF r.n <= Len(r.files) /\ ~isCancelled
    THEN LET file == r.files[r.n]
         IN  IF file.uri \in r.known
             THEN LET r1 == [r EXCEPT !.known = @ \ {file.uri}]
                  IN  IF file.modified < r.timestamp
                      THEN Walk([r1 EXCEPT !.n = @ + 1], isCancelled)
                      ELSE [r1 EXCEPT !.pc = "reading"]
             ELSE IF file.size > r.maxFileSize
                  THEN Walk([r EXCEPT !.n = @ + 1], isCancelled)
                  ELSE [r EXCEPT !.pc = "reading"]
    ELSE AfterWalk(r, isCancelled)

\* line 508 resumes with the discovered files
AfterDiscover(r, found, isCancelled) ==
    Walk([r EXCEPT !.files = found, !.n = 1], isCancelled)

\* lines 529-533 with the outcome of the read: a document is counted and its
\* submission scheduled, an absent one is passed over
AfterRead(r, doc, isCancelled) ==
    IF doc # Undefined
    THEN [r EXCEPT !.pc = "submitting", !.result.indexedFileCount = @ + 1]
    ELSE Walk([r EXCEPT !.unread = Append(@, r.files[r.n].uri), !.n = @ + 1], isCancelled)

\* a submission that overwrites the symbol total instead of adding to it
AfterSubmitOverwriting(r, count, isCancelled) ==
    Walk([r EXCEPT !.result.symbolCount = count,
                   !.submitted = Append(@, r.files[r.n].uri),
                   !.n = @ + 1],
         isCancelled)

\* a submission after which the loop goes on without a look at the token
AfterSubmitIgnoringToken(r, count, isCancelled) ==
    Walk([r EXCEPT !.result.symbolCount = @ + count,
                   !.submitted = Append(@, r.files[r.n].uri),
                   !.n = @ + 1],
         FALSE)

\* line 532 with the symbol count of the submitted document, then on to the
\* next file
AfterSubmit(r, count, isCancelled) ==
    Walk([r EXCEPT !.result.symbolCount = @ + count,
                   !.submitted = Append(@, r.files[r.n].uri),
                   !.n = @ + 1],
         isCancelled)

\* a forget pass that never moves on from its first uri
AfterForgetRepeating(r, isCancelled) == r

\* forgetFiles (lines 585-589) after one forget, and lines 541-545 after the last
AfterForget(r, isCancelled) ==
    LET r1 == [r EXCEPT !.forgets = Append(@, r.forgetList[r.k]), !.k = @ + 1]
    IN  IF r1.k <= Len(r1.forgetList) THEN r1 ELSE Finish(r1, isCancelled)

\* a cancelIndexing that drops the handle without signalling it
CancelledWithoutSignal(c, h) == c

\* the token sources cancelled after cancelIndexing (line 554)
CancelledAfterCancel(c, h) == c \cup {h}

\* the token sources disposed after cancelIndexing (line 555)
DisposedAfterCancel(d, h) == d \cup {h}

\* where each run stood when its cancellation was requested
NoteCancel(rs, h) ==
    IF h # NoRun /\ rs[h].cancelledAt = "" THEN [rs EXCEPT ![h].cancelledAt = rs[h].pc] ELSE rs

\* cancelIndexing (lines 549-557)
cancelIndexing ==
    /\ indexing # NoRun
    /\ cancelled' = CancelledAfterCancel(cancelled, indexing)
    /\ disposed' = DisposedAfterCancel(disposed, indexing)
    /\ indexing' = NoRun
    /\ runs' = NoteCancel(runs, indexing)
    /\ UNCHANGED <<now, files, composer, faults, cache, fsEvents, folders, config, declined,
                   engine, watch>>

\* folderArray: the folders in key insertion order
folderArray(fs) == [i \in 1..Len(fs) |-> fs[i].folder]

\* the run record of a started run: lines 499-512 up to the await
StartedRun(restart, fs, cfg, eng, clock, thisBound) ==
    LET knownDocs == knownDocuments(eng, clock)
        assoc == Append(getConfigValue(cfg, "files.associations", <<>>), PhpGlob)
    IN  [UnusedRun EXCEPT
            !.pc = IF DereferencesThis(folderArray(fs)) /\ ~thisBound
                   THEN "rejected" ELSE "discovering",
            !.restart = restart,
            !.folderSnap = folderArray(fs),
            !.associations = Dedup(assoc),
            !.exclude = getConfigValue(cfg, "files.exclude", <<>>),
            !.useComposerJson = getConfigValue(cfg, "indexer.useComposerJson", TRUE),
            !.known0 = knownDocs.documents,
            !.known = knownDocs.documents,
            !.timestamp = knownDocs.timestamp,
            !.maxFileSize = getConfigValue(cfg, "files.maxSize", DefaultMaxSize)]

FreeRun == CHOOSE r \in RunIds : runs[r].pc = "unused" /\ \A q \in RunIds : q < r => runs[q].pc # "unused"

\* a declining call that forgets to flag its result
DeclineResultUnflagged == ZeroResult

\* the result of a call that declines (lines 480-493)
DeclineResult == [ZeroResult EXCEPT !.wasCancelled = TRUE]

\* the part of indexWorkspace that runs in the caller's turn (lines 478-512),
\* given the folder mapping the caller leaves
indexWorkspaceCall(restartIfInProgress, fs) ==
    IF indexing # NoRun /\ ~restartIfInProgress
    THEN /\ declined' = [returned |-> TRUE, result |-> DeclineResult]
         /\ UNCHANGED <<indexing, cancelled, disposed, runs, config, engine>>
    ELSE /\ \E r \in RunIds : runs[r].pc = "unused"
         /\ \E thisBound \in BOOLEAN :
               runs' = [NoteCancel(runs, indexing) EXCEPT ![FreeRun] =
                           [StartedRun(restartIfInProgress, fs, config, engine, now, thisBound)
                               EXCEPT !.doneBefore = {q \in RunIds : runs[q].pc = "done"}]]
         /\ cancelled' = IF indexing # NoRun THEN CancelledAfterCancel(cancelled, indexing)
                         ELSE cancelled
         /\ disposed' = IF indexing # NoRun THEN DisposedAfterCancel(disposed, indexing)
                        ELSE disposed
         /\ indexing' = FreeRun
         /\ config' = ConfigAfterPush(config)
         /\ UNCHANGED <<declined, engine>>

\* indexWorkspace called by onInitialized (restart absent) or by a client of
\* the coordinator
IndexWorkspace(restartIfInProgress) ==
    /\ indexWorkspaceCall(restartIfInProgress, folders)
    /\ UNCHANGED <<now, files, composer, faults, cache, fsEvents, folders, watch>>

\* line 508 resumes: Workspace.findFiles has resolved
DiscoverDone(r) ==
    /\ runs[r].pc = "discovering"
    /\ LET found == findFiles(runs[r].folderSnap, runs[r].associations, runs[r].exclude,
                              runs[r].useComposerJson, {}, files, composer, faults)
       IN  runs' = [runs EXCEPT ![r] =
                       AfterDiscover(@, found, r \in cancelled)]
    /\ UNCHANGED <<now, files, composer, faults, cache, fsEvents, folders, config, indexing, cancelled,
                   disposed, declined, engine, watch>>

\* Workspace.getDocument: the text document, or undefined when the read fails
getDocument(uri, fsFiles) ==
    IF schemeFileSystemProvider(uriScheme(uri)) = Undefined THEN Undefined
    ELSE IF uri \in DOMAIN fsFiles /\ fsFiles[uri].exists THEN "doc"
    ELSE Undefined

\* line 529 resumes: the read of files[n] has settled
ReadDone(r) ==
    /\ runs[r].pc = "reading"
    /\ runs' = [runs EXCEPT ![r] =
           AfterRead(@, getDocument(runs[r].files[runs[r].n].uri, files), r \in cancelled)]
    /\ UNCHANGED <<now, files, composer, faults, cache, fsEvents, folders, config, indexing, cancelled,
                   disposed, declined, engine, watch>>

\* the setImmediate callback of discover(doc) runs (lines 601-609), and line
\* 532 resumes with the symbol count
SubmitDone(r) ==
    /\ runs[r].pc = "submitting"
    /\ engine' = EngineDiscover(engine, runs[r].files[runs[r].n].uri)
    /\ runs' = [runs EXCEPT ![r] =
           AfterSubmit(@, SymbolsIn(runs[r].files[runs[r].n].uri), r \in cancelled)]
    /\ UNCHANGED <<now, files, composer, faults, cache, fsEvents, folders, config, indexing, cancelled,
                   disposed, declined, watch>>

\* the setImmediate callback of forget(uri) runs (lines 591-599) inside the
\* forgetFiles of line 538
ForgetDone(r) ==
    /\ runs[r].pc = "forgetting"
    /\ engine' = EngineForget(engine, runs[r].forgetList[runs[r].k])
    /\ runs' = [runs EXCEPT ![r] = AfterForget(@, r \in cancelled)]
    /\ UNCHANGED <<now, files, composer, faults, cache, fsEvents, folders, config, indexing, cancelled,
                   disposed, declined, watch>>

(* ------------------------------------------------------------------ *)
(* workspace.ts: namespace Workspace, the folder mapping                *)
(* ------------------------------------------------------------------ *)
EndsWithSlash(uri) == Len(uri) > 0 /\ uri[Len(uri)] = "/"

\* addFolder, lines 76-78: the folder object with its uri normalised
NormalisedFolder(folder) ==
    IF EndsWithSlash(folder.uri) THEN folder
    ELSE [folder EXCEPT !.uri = Append(@, "/")]

HasKey(fs, key) == \E i \in 1..Len(fs) : fs[i].key = key

\* an addFolder that stores the folder under its uri as given
addFolderAsGiven(fs, folder) ==
    IF HasKey(fs, folder.uri)
    THEN [i \in 1..Len(fs) |-> IF fs[i].key = folder.uri
                               THEN [key |-> folder.uri, folder |-> folder] ELSE fs[i]]
    ELSE Append(fs, [key |-> folder.uri, folder |-> folder])

\* addFolder (lines 74-81): folders[folder.uri] = folder; an existing key
\* keeps its place in the key order
addFolder(fs, folder) ==
    LET f == NormalisedFolder(folder)
    IN  IF HasKey(fs, f.uri)
        THEN [i \in 1..Len(fs) |-> IF fs[i].key = f.uri THEN [key |-> f.uri, folder |-> f]
                                   ELSE fs[i]]
        ELSE Append(fs, [key |-> f.uri, folder |-> f])

\* removeFolder (lines 83-87): delete folders[folder.uri], the uri as given
removeFolder(fs, folder) ==
    IF HasKey(fs, folder.uri)
    THEN SelectSeq(fs, LAMBDA e : e.key # folder.uri)
    ELSE fs

RECURSIVE addFolders(_, _)
addFolders(fs, added) ==
    IF added = <<>> THEN fs ELSE addFolders(addFolder(fs, Head(added)), Tail(added))

RECURSIVE removeFolders(_, _)
removeFolders(fs, removed) ==
    IF removed = <<>> THEN fs ELSE removeFolders(removeFolder(fs, Head(removed)), Tail(removed))

WithoutSlash(uri) == SubSeq(uri, 1, Len(uri) - 1)

ClientFolder(uri) == [uri |-> uri, name |-> "folder"]

\* onDidChangeWorkspaceFolders (server.ts 395-405)
DidChangeWorkspaceFolders(added, removed) ==
    /\ folders' = removeFolders(addFolders(folders, added), removed)
    /\ indexWorkspaceCall(TRUE, folders')
    /\ UNCHANGED <<now, files, composer, faults, cache, fsEvents, watch>>

(* ------------------------------------------------------------------ *)
(* workspace.ts: filterFiles                                            *)
(* ------------------------------------------------------------------ *)
RECURSIVE Reverse(_)
Reverse(q) == IF q = <<>> THEN <<>> ELSE Append(Reverse(Tail(q)), Head(q))

\* lines 336-340: the uris of uriArray under the folder that match an
\* association, vendor/** ignored with composer integration on.  The exclude
\* argument is not used by the function.
FilterSourceMatches(uriArray, folderUri, associations, useComposerJson) ==
    LET hit(u) == /\ IsPrefix(folderUri, u)
                  /\ Len(u) > Len(folderUri)
                  /\ \E i \in 1..Len(associations) :
                        GlobMatches(associations[i], RelPath(folderUri, u), TRUE)
                  /\ ~(useComposerJson /\ IgnoreMatches(VendorIgnore, RelPath(folderUri, u)))
    IN  SelectSeqBy(Dedup(uriArray), {u \in Range(uriArray) : hit(u)})

\* lines 343-354: the uris of uriArray under a vendor package of the manifest
FilterVendorMatches(uriArray, folderUri, associations, useComposerJson, vendorGuard, manifest) ==
    IF ~useComposerJson THEN <<>>
    ELSE LET vdir  == folderUri \o <<"vendor", "/">>
             globs == vendorGlobs(readComposerPackages(manifest), associations, vendorGuard)
             hit(u) == /\ IsPrefix(vdir, u)
                       /\ Len(u) > Len(vdir)
                       /\ \E i \in 1..Len(globs) : VendorGlobMatches(globs[i], RelPath(vdir, u))
                       /\ ~MatchesVendorTestsGlob(RelPath(vdir, u))
         IN  SelectSeqBy(Dedup(uriArray), {u \in Range(uriArray) : hit(u)})

\* lines 360-381: fileInfo of each match, taken from the end of the list; a
\* file that cannot be stat'ed is dropped
FileInfosOf(items, fsFiles) ==
    LET ok == SelectSeq(Reverse(items), LAMBDA u : u \in DOMAIN fsFiles /\ fsFiles[u].exists)
    IN  [i \in 1..Len(ok) |-> FileInfoOf(ok[i], fsFiles)]

\* filterFilesInFolder (lines 321-382)
filterFilesInFolder(uriArray, folderUri, associations, exclude, useComposerJson, vendorGuard, fsFiles, manifest) ==
    IF schemeFileSystemProvider(uriScheme(folderUri)) = Undefined THEN <<>>
    ELSE FileInfosOf(
            FilterSourceMatches(uriArray, folderUri, associations, useComposerJson)
            \o FilterVendorMatches(uriArray, folderUri, associations, useComposerJson,
                                   vendorGuard, manifest),
            fsFiles)

RECURSIVE filterFiles(_, _, _, _, _, _, _, _)
\* filterFiles (lines 156-167)
filterFiles(uriArray, folderSeq, associations, exclude, useComposerJson, vendorGuard, fsFiles, fsComposer) ==
    IF folderSeq = <<>> THEN <<>>
    ELSE LET f == Head(folderSeq).uri
             m == IF f \in DOMAIN fsComposer THEN fsComposer[f]
                  ELSE [state |-> "missing", require |-> <<>>, requireDev |-> <<>>]
         IN  filterFilesInFolder(uriArray, f, associations, exclude, useComposerJson,
                                 vendorGuard, fsFiles, m)
             \o filterFiles(uriArray, Tail(folderSeq), associations, exclude, useComposerJson,
                            IF uriScheme(f) = "file" /\ useComposerJson
                            THEN vendorGuardAfter(readComposerPackages(m), vendorGuard)
                            ELSE vendorGuard,
                            fsFiles, fsComposer)

(* ------------------------------------------------------------------ *)
(* server.ts: the incremental path                                      *)
(* ------------------------------------------------------------------ *)
BatchIds == 1..MaxWatchEvents

\* the engine updates a run has made: documents submitted and forgotten
UpdatesOf(run) == Len(run.submitted) + Len(run.forgets)

\* An activation of forgetFiles and of indexFiles for one file-watch batch,
\* with a record of what it did (forgets, submitted) and of how many engine
\* updates each full run had made when the batch last updated the engine
\* (seen), which the code does not keep and no action reads.
UnusedBatch == [fpc |-> "unused", forgetList |-> <<>>, k |-> 1, forgets |-> <<>>,
                ipc |-> "unused", uriArray |-> <<>>, folderSnap |-> <<>>,
                associations |-> <<>>, exclude |-> <<>>, useComposerJson |-> FALSE,
                maxFileSize |-> 0, files |-> <<>>, n |-> 1, doc |-> Undefined,
                submitted |-> <<>>, seen |-> [r \in RunIds |-> 0]]

RECURSIVE IndexFilesWalk(_)
\* indexFiles, lines 575-578: the loop from its head up to the next read
IndexFilesWalk(b) ==
    IF b.n <= Len(b.files)
    THEN IF b.files[b.n].size <= b.maxFileSize
         THEN [b EXCEPT !.ipc = "reading"]
         ELSE IndexFilesWalk([b EXCEPT !.n = @ + 1])
    ELSE [b EXCEPT !.ipc = "done"]

\* the activations of forgetFiles(toForget) and indexFiles(toIndex) as the
\* handler leaves them (lines 390-391, 565-571, 586-587)
StartedBatch(toForget, toIndex, fs, cfg, thisBound) ==
    [UnusedBatch EXCEPT
        !.fpc = IF Len(toForget) > 0 THEN "forgetting" ELSE "done",
        !.forgetList = toForget,
        !.ipc = IF DereferencesThis(folderArray(fs)) /\ ~thisBound
                THEN "rejected" ELSE "filtering",
        !.uriArray = toIndex,
        !.folderSnap = folderArray(fs),
        !.associations = getConfigValue(cfg, "files.associations", <<PhpGlob>>),
        !.exclude = getConfigValue(cfg, "files.exclude", <<>>),
        !.useComposerJson = getConfigValue(cfg, "indexer.useComposerJson", TRUE),
        !.maxFileSize = getConfigValue(cfg, "files.maxSize", DefaultMaxSize)]

FreeBatch == CHOOSE b \in BatchIds :
                watch[b].fpc = "unused" /\ \A q \in BatchIds : q < b => watch[q].fpc # "unused"

\* onDidChangeWatchedFiles (lines 372-393): Deleted events to forgetFiles,
\* the others to indexFiles, both started in the handler's turn
DidChangeWatchedFiles(toForget, toIndex) ==
    /\ \E b \in BatchIds : watch[b].fpc = "unused"
    /\ \E thisBound \in BOOLEAN :
          watch' = [watch EXCEPT ![FreeBatch] =
                        StartedBatch(toForget, toIndex, folders, config, thisBound)]
    /\ UNCHANGED <<now, files, composer, faults, cache, fsEvents, folders, config, indexing, cancelled,
                   disposed, runs, declined, engine>>

\* forgetFiles: a setImmediate callback of forget(uri) runs
WatchForgetDone(b) ==
    /\ watch[b].fpc = "forgetting"
    /\ engine' = EngineForget(engine, watch[b].forgetList[watch[b].k])
    /\ watch' = [watch EXCEPT ![b] =
           LET b1 == [@ EXCEPT !.forgets = Append(@, watch[b].forgetList[watch[b].k]),
                               !.seen = [r \in RunIds |-> UpdatesOf(runs[r])],
                               !.k = @ + 1]
           IN  IF b1.k <= Len(b1.forgetList) THEN b1 ELSE [b1 EXCEPT !.fpc = "done"]]
    /\ UNCHANGED <<now, files, composer, faults, cache, fsEvents, folders, config, indexing, cancelled,
                   disposed, runs, declined>>

\* indexFiles, line 566 resumes: Workspace.filterFiles has resolved
WatchFilterDone(b) ==
    /\ watch[b].ipc = "filtering"
    /\ LET found == filterFiles(watch[b].uriArray, watch[b].folderSnap,
                                watch[b].associations, watch[b].exclude,
                                watch[b].useComposerJson, {}, files, composer)
       IN  watch' = [watch EXCEPT ![b] = IndexFilesWalk([@ EXCEPT !.files = found, !.n = 1])]
    /\ UNCHANGED <<now, files, composer, faults, cache, fsEvents, folders, config, indexing, cancelled,
                   disposed, runs, declined, engine>>

\* indexFiles, line 578 resumes: the read has settled; line 579 schedules the
\* submission of whatever the read gave
WatchReadDone(b) ==
    /\ watch[b].ipc = "reading"
    /\ watch' = [watch EXCEPT ![b] =
           [@ EXCEPT !.ipc = "submitting",
                     !.doc = getDocument(watch[b].files[watch[b].n].uri, files)]]
    /\ UNCHANGED <<now, files, composer, faults, cache, fsEvents, folders, config, indexing, cancelled,
                   disposed, runs, declined, engine>>

\* indexFiles: the setImmediate callback of discover(doc) runs; the engine is
\* handed the document, present or not
WatchSubmitDone(b) ==
    /\ watch[b].ipc = "submitting"
    /\ LET uri == watch[b].files[watch[b].n].uri
           present == watch[b].doc # Undefined
       IN  /\ engine' = IF present THEN EngineDiscover(engine, uri) ELSE engine
           /\ watch' = [watch EXCEPT ![b] =
                  IndexFilesWalk([@ EXCEPT
                      !.submitted = Append(@, [uri |-> uri, present |-> present]),
                      !.seen = IF present THEN [r \in RunIds |-> UpdatesOf(runs[r])] ELSE @,
                      !.doc = Undefined,
                      !.n = @ + 1])]
    /\ UNCHANGED <<now, files, composer, faults, cache, fsEvents, folders, config, indexing, cancelled,
                   disposed, runs, declined>>

(* ------------------------------------------------------------------ *)
(* cache.ts: JSON values and their text                                 *)
(* ------------------------------------------------------------------ *)
\* JSON-compatible values: null, booleans, numbers, strings, arrays, objects
JNull == [kind |-> "null", val |-> <<>>]
JTrue == [kind |-> "bool", val |-> <<"true">>]
JNum == [kind |-> "num", val |-> <<"1">>]
JStr == [kind |-> "str", val |-> <<"s">>]
JArr(elements) == [kind |-> "arr", val |-> elements]
JObj(members) == [kind |-> "obj", val |-> members]
JMember(name, value) == [name |-> name, value |-> value]

RECURSIVE JsonText(_)
RECURSIVE JsonElements(_)
RECURSIVE JsonMembers(_)
\* JSON.stringify(value), as the tokens of its text
JsonText(v) ==
    CASE v.kind = "null" -> <<"null">>
      [] v.kind \in {"bool", "num"} -> v.val
      [] v.kind = "str" -> <<"\"", v.val[1], "\"">>
      [] v.kind = "arr" -> <<"[">> \o JsonElements(v.val) \o <<"]">>
      [] OTHER -> <<"{">> \o JsonMembers(v.val) \o <<"}">>

JsonElements(vs) ==
    IF vs = <<>> THEN <<>>
    ELSE IF Len(vs) = 1 THEN JsonText(vs[1])
    ELSE JsonText(vs[1]) \o <<",">> \o JsonElements(Tail(vs))

JsonMembers(ms) ==
    IF ms = <<>> THEN <<>>
    ELSE IF Len(ms) = 1 THEN <<"\"", ms[1].name, "\"", ":">> \o JsonText(ms[1].value)
    ELSE <<"\"", ms[1].name, "\"", ":">> \o JsonText(ms[1].value) \o <<",">>
         \o JsonMembers(Tail(ms))

RECURSIVE StringifyStream(_, _)
\* jsonstream.stringify('[', ',', ']') (line 41) fed data[n..] (lines 58-62):
\* the open bracket before the first item, a comma before each later one
StringifyStream(data, first) ==
    IF data = <<>> THEN <<>>
    ELSE <<IF first THEN "[" ELSE ",">> \o JsonText(Head(data))
         \o StringifyStream(Tail(data), FALSE)

\* what put leaves in the backing file: the items, or '[' alone when there
\* are none, and the closing bracket
PutText(data) ==
    (IF data = <<>> THEN <<"[">> ELSE StringifyStream(data, TRUE)) \o <<"]">>

ParseOk(v, next) == [status |-> "ok", val |-> v, next |-> next]
ParseStop(status) == [status |-> status, val |-> JNull, next |-> 0]

RECURSIVE ParseValue(_, _)
RECURSIVE ParseElements(_, _, _)
RECURSIVE ParseMembers(_, _, _)
\* the JSON parser of jsonstream.parse (line 72): the value that starts at
\* token i; an unexpected token is an error, the end of the text is not
ParseValue(t, i) ==
    IF i > Len(t) THEN ParseStop("eof")
    ELSE CASE t[i] = "null" -> ParseOk(JNull, i + 1)
           [] t[i] \in {"true", "false"} -> ParseOk([kind |-> "bool", val |-> <<t[i]>>], i + 1)
           [] t[i] = "1" -> ParseOk([kind |-> "num", val |-> <<t[i]>>], i + 1)
           [] t[i] = "\"" ->
                IF i + 2 > Len(t) THEN ParseStop("eof")
                ELSE IF t[i + 2] = "\""
                     THEN ParseOk([kind |-> "str", val |-> <<t[i + 1]>>], i + 3)
                     ELSE ParseStop("error")
           [] t[i] = "[" -> ParseElements(t, i + 1, <<>>)
           [] t[i] = "{" -> ParseMembers(t, i + 1, <<>>)
           [] OTHER -> ParseStop("error")

ParseElements(t, i, acc) ==
    IF i > Len(t) THEN ParseStop("eof")
    ELSE IF t[i] = "]" /\ acc = <<>> THEN ParseOk(JArr(acc), i + 1)
    ELSE LET r == ParseValue(t, i)
         IN  IF r.status # "ok" THEN r
             ELSE IF r.next > Len(t) THEN ParseStop("eof")
             ELSE IF t[r.next] = "," THEN ParseElements(t, r.next + 1, Append(acc, r.val))
             ELSE IF t[r.next] = "]" THEN ParseOk(JArr(Append(acc, r.val)), r.next + 1)
             ELSE ParseStop("error")

ParseMembers(t, i, acc) ==
    IF i > Len(t) THEN ParseStop("eof")
    ELSE IF t[i] = "}" /\ acc = <<>> THEN ParseOk(JObj(acc), i + 1)
    ELSE IF i + 3 > Len(t) THEN ParseStop("eof")
    ELSE IF ~(t[i] = "\"" /\ t[i + 2] = "\"" /\ t[i + 3] = ":") THEN ParseStop("error")
    ELSE LET r == ParseValue(t, i + 4)
             m == JMember(t[i + 1], r.val)
         IN  IF r.status # "ok" THEN r
             ELSE IF r.next > Len(t) THEN ParseStop("eof")
             ELSE IF t[r.next] = "," THEN ParseMembers(t, r.next + 1, Append(acc, m))
             ELSE IF t[r.next] = "}" THEN ParseOk(JObj(Append(acc, m)), r.next + 1)
             ELSE ParseStop("error")

\* the 'data' events of jsonstream.parse('*'): a value directly under the
\* root is emitted unless it is null, which the stream does not emit
Emitted(values) == SelectSeq(values, LAMBDA v : v.kind # "null")

RECURSIVE ParseStreamItems(_, _, _)
\* the elements of a root array from token i on, emitted as each completes
ParseStreamItems(t, i, items) ==
    IF i > Len(t) THEN [status |-> "end", items |-> items]
    ELSE IF t[i] = "]" /\ i = 2 THEN [status |-> "end", items |-> items]
    ELSE LET r == ParseValue(t, i)
         IN  IF r.status = "error" THEN [status |-> "error", items |-> items]
             ELSE IF r.status = "eof" \/ r.next > Len(t)
                  THEN [status |-> "end", items |-> items]
             ELSE IF t[r.next] = ","
                  THEN ParseStreamItems(t, r.next + 1, items \o Emitted(<<r.val>>))
             ELSE IF t[r.next] = "]"
                  THEN [status |-> "end", items |-> items \o Emitted(<<r.val>>)]
             ELSE [status |-> "error", items |-> items]

\* readStream.pipe(jsonstream.parse('*')) over the text of a file (lines
\* 72-92): the items pushed, and whether the stream ended or failed
ParseStream(t) ==
    IF t = <<>> THEN [status |-> "end", items |-> <<>>]
    ELSE IF t[1] = "[" THEN ParseStreamItems(t, 2, <<>>)
    ELSE LET r == ParseValue(t, 1)
         IN  IF r.status = "error" THEN [status |-> "error", items |-> <<>>]
             ELSE IF r.status = "ok" /\ r.val.kind = "obj"
                  THEN [status |-> "end",
                        items |-> Emitted([k \in 1..Len(r.val.val) |-> r.val.val[k].value])]
             ELSE [status |-> "end", items |-> <<>>]

(* ------------------------------------------------------------------ *)
(* cache.ts: class Cache                                                *)
(* ------------------------------------------------------------------ *)
\* cacheDir (server.ts 443-448): one relative path component
CacheDirName == "c"

\* keys, as their path components: a plain key, the key that reads like the
\* directory's own name, and a key that names a subdirectory
KeyK == <<"k">>
KeyDir == <<CacheDirName>>
KeySub == <<"sub", "k">>
Keys == {KeyK, KeyDir, KeySub}

\* pathFromKey: path.join(this.dir, key + '.json')
pathFromKey(dir, key) == <<dir>> \o key \o <<".json">>

Paths == {pathFromKey(CacheDirName, k) : k \in Keys}

\* the directory that must exist for the file to be created
ParentOf(path) == SubSeq(path, 1, Len(path) - 2)

NoFile == [present |-> FALSE, readable |-> TRUE, text |-> <<>>]

\* the record sets the callers store
RecordSets == {<<>>, <<JNum>>, <<JNull>>, <<JStr, JTrue>>, <<JNum, JNull>>, <<JArr(<<>>)>>,
               <<JObj(<<JMember("a", JNull)>>), JArr(<<JNull, JNum>>)>>}

\* a text that is not JSON
BadText == <<"[", "1", ",", "?", "]">>

IdleOp == [pc |-> "idle", key |-> KeyK, data |-> <<>>, items |-> <<>>,
           found |-> "", never |-> FALSE, gone |-> FALSE,
           expect |-> [known |-> FALSE, records |-> <<>>]]

\* the state before Cache.create: nothing on disk, no handle, and a record of
\* what was done to each key, which the code does not keep
NoCache ==
    [dirExists |-> FALSE,
     handle    |-> "none",
     disk      |-> [p \in Paths |-> NoFile],
     put       |-> IdleOp,
     get       |-> IdleOp,
     del       |-> IdleOp,
     dispose   |-> "idle",
     ops       |-> 0,
     written   |-> [k \in Keys |-> [known |-> FALSE, records |-> <<>>]],
     everPut   |-> {},
     deleted   |-> {},
     left      |-> [dir |-> FALSE, keys |-> {}]]

Forgotten(c, key) == [c EXCEPT !.written[key] = [known |-> FALSE, records |-> <<>>]]

\* Cache.create (lines 108-119): ensureDir, then the handle; undefined when
\* the directory cannot be made
CacheCreate(fails) ==
    /\ cache.handle = "none"
    /\ cache' = IF fails THEN [cache EXCEPT !.handle = "absent"]
                ELSE [cache EXCEPT !.handle = "cache", !.dirExists = TRUE]
    /\ UNCHANGED <<now, files, composer, faults, fsEvents, folders, config, indexing,
                   cancelled, disposed, runs, declined, engine, watch>>

\* put (lines 34-64), the caller's turn: the streams are made, the items
\* written to the transform stream and the stream ended
CachePut(key, data) ==
    /\ cache.ops < MaxCacheOps
    /\ cache.handle = "cache"
    /\ cache.put.pc \in {"idle", "resolved", "rejected"}
    /\ cache' = [Forgotten(cache, key) EXCEPT
                    !.ops = @ + 1,
                    !.put = [IdleOp EXCEPT !.pc = "opening", !.key = key, !.data = data]]
    /\ UNCHANGED <<now, files, composer, faults, fsEvents, folders, config, indexing,
                   cancelled, disposed, runs, declined, engine, watch>>

\* fs.createWriteStream (line 42) opens the file: created or truncated, or
\* 'error' when its directory is missing (lines 51-54)
CachePutOpened ==
    /\ cache.put.pc = "opening"
    /\ LET path == pathFromKey(CacheDirName, cache.put.key)
       IN  cache' =
             IF cache.dirExists /\ ParentOf(path) = <<CacheDirName>> /\ cache.disk[path].readable
             THEN [cache EXCEPT !.put.pc = "writing",
                                !.disk[path] = [NoFile EXCEPT !.present = TRUE]]
             ELSE [cache EXCEPT !.put.pc = "rejected"]
    /\ UNCHANGED <<now, files, composer, faults, fsEvents, folders, config, indexing,
                   cancelled, disposed, runs, declined, engine, watch>>

\* the write stream finishes (lines 49-51): the text is in the file, unless
\* the file was unlinked meanwhile, and put resolves
CachePutFinished ==
    /\ cache.put.pc = "writing"
    /\ LET key  == cache.put.key
           path == pathFromKey(CacheDirName, key)
       IN  cache' =
             IF cache.disk[path].present
             THEN [cache EXCEPT !.put.pc = "resolved",
                                !.disk[path].text = PutText(cache.put.data),
                                !.written[key] = [known |-> TRUE, records |-> cache.put.data],
                                !.everPut = @ \cup {key},
                                !.deleted = @ \ {key}]
             ELSE [cache EXCEPT !.put.pc = "resolved"]
    /\ UNCHANGED <<now, files, composer, faults, fsEvents, folders, config, indexing,
                   cancelled, disposed, runs, declined, engine, watch>>

\* get (lines 66-94), the caller's turn
CacheGet(key) ==
    /\ cache.ops < MaxCacheOps
    /\ cache.handle = "cache"
    /\ cache.get.pc \in {"idle", "resolved", "rejected"}
    /\ cache' = [cache EXCEPT !.ops = @ + 1,
                              !.get = [IdleOp EXCEPT !.pc = "reading", !.key = key]]
    /\ UNCHANGED <<now, files, composer, faults, fsEvents, folders, config, indexing,
                   cancelled, disposed, runs, declined, engine, watch>>

\* a get that fails on a missing file as on any other read error
GetOutcomeStrict(file) ==
    IF ~file.present THEN [pc |-> "rejected", items |-> <<>>, found |-> "missing"]
    ELSE IF ~file.readable THEN [pc |-> "rejected", items |-> <<>>, found |-> "unreadable"]
    ELSE IF ParseStream(file.text).status = "error"
         THEN [pc |-> "rejected", items |-> ParseStream(file.text).items, found |-> "malformed"]
    ELSE [pc |-> "resolved", items |-> ParseStream(file.text).items, found |-> "parsed"]

\* get, lines 76-92: ENOENT resolves with no items, another read error
\* rejects, a parser error rejects, the end of the stream resolves
GetOutcome(file) ==
    IF ~file.present THEN [pc |-> "resolved", items |-> <<>>, found |-> "missing"]
    ELSE IF ~file.readable THEN [pc |-> "rejected", items |-> <<>>, found |-> "unreadable"]
    ELSE IF ParseStream(file.text).status = "error"
         THEN [pc |-> "rejected", items |-> ParseStream(file.text).items, found |-> "malformed"]
    ELSE [pc |-> "resolved", items |-> ParseStream(file.text).items, found |-> "parsed"]

\* the read stream has been read to its end or has failed
CacheGetDone ==
    /\ cache.get.pc = "reading"
    /\ LET key == cache.get.key
           out == GetOutcome(cache.disk[pathFromKey(CacheDirName, key)])
       IN  cache' = [cache EXCEPT !.get.pc = out.pc, !.get.items = out.items,
                                  !.get.found = out.found,
                                  !.get.never = key \notin cache.everPut,
                                  !.get.gone = key \in cache.deleted,
                                  !.get.expect = cache.written[key]]
    /\ UNCHANGED <<now, files, composer, faults, fsEvents, folders, config, indexing,
                   cancelled, disposed, runs, declined, engine, watch>>

\* del (lines 96-98): fs.unlink, which fails on a missing file
CacheDel(key) ==
    /\ cache.ops < MaxCacheOps
    /\ cache.handle = "cache"
    /\ LET path == pathFromKey(CacheDirName, key)
       IN  cache' =
             IF cache.disk[path].present
             THEN [Forgotten(cache, key) EXCEPT
                      !.ops = @ + 1,
                      !.disk[path] = NoFile,
                      !.deleted = @ \cup {key},
                      !.del = [IdleOp EXCEPT !.pc = "resolved", !.key = key]]
             ELSE [cache EXCEPT !.ops = @ + 1,
                                !.del = [IdleOp EXCEPT !.pc = "rejected", !.key = key]]
    /\ UNCHANGED <<now, files, composer, faults, fsEvents, folders, config, indexing,
                   cancelled, disposed, runs, declined, engine, watch>>

\* what fs.remove(target) leaves of the cache on disk
DiskAfterRemove(c, target) ==
    IF target = <<CacheDirName>>
    THEN [c EXCEPT !.dirExists = FALSE, !.disk = [p \in Paths |-> NoFile]]
    ELSE IF target \in Paths THEN [c EXCEPT !.disk[target] = NoFile]
    ELSE c

\* dispose (lines 100-102): the path it removes
DisposeTarget(dir) == pathFromKey(dir, <<dir>>)

CacheDispose ==
    /\ cache.ops < MaxCacheOps
    /\ cache.handle = "cache"
    /\ cache.dispose = "idle"
    /\ cache.put.pc \notin {"opening", "writing"}
    /\ cache' = [DiskAfterRemove(cache, DisposeTarget(CacheDirName)) EXCEPT
                    !.ops = @ + 1,
                    !.left = [dir  |-> DiskAfterRemove(cache, DisposeTarget(CacheDirName)).dirExists,
                              keys |-> {k \in cache.everPut :
                                          DiskAfterRemove(cache, DisposeTarget(CacheDirName))
                                              .disk[pathFromKey(CacheDirName, k)].present}],
                    !.dispose = "resolved",
                    !.written = [k \in Keys |->
                                    IF pathFromKey(CacheDirName, k) = DisposeTarget(CacheDirName)
                                    THEN [known |-> FALSE, records |-> <<>>]
                                    ELSE cache.written[k]]]
    /\ UNCHANGED <<now, files, composer, faults, fsEvents, folders, config, indexing,
                   cancelled, disposed, runs, declined, engine, watch>>

\* the environment damages a backing file: its text is no longer JSON, or it
\* can no longer be read
CacheFileDamaged(key, how) ==
    /\ cache.ops < MaxCacheOps
    /\ cache.disk[pathFromKey(CacheDirName, key)].present
    /\ cache.disk[pathFromKey(CacheDirName, key)].readable
    /\ cache.put.pc \notin {"opening", "writing"}
    /\ cache' = [Forgotten(cache, key) EXCEPT
                    !.ops = @ + 1,
                    !.disk[pathFromKey(CacheDirName, key)] =
                        IF how = "text" THEN [@ EXCEPT !.text = BadText]
                        ELSE [@ EXCEPT !.readable = FALSE]]
    /\ UNCHANGED <<now, files, composer, faults, fsEvents, folders, config, indexing,
                   cancelled, disposed, runs, declined, engine, watch>>

(* ------------------------------------------------------------------ *)
(* The environment: clock and file system                               *)
(* ------------------------------------------------------------------ *)
Tick ==
    /\ now < MaxTime
    /\ now' = now + 1
    /\ UNCHANGED <<files, composer, faults, cache, fsEvents, folders, config, indexing, cancelled,
                   disposed, runs, declined, engine, watch>>

\* a file is written: its modification time becomes the current instant
TouchFile(u) ==
    /\ fsEvents < MaxFsEvents
    /\ files[u].exists
    /\ files' = [files EXCEPT ![u].modified = now]
    /\ fsEvents' = fsEvents + 1
    /\ UNCHANGED <<now, composer, faults, cache, folders, config, indexing, cancelled, disposed, runs,
                   declined, engine, watch>>

DeleteFile(u) ==
    /\ fsEvents < MaxFsEvents
    /\ files[u].exists
    /\ files' = [files EXCEPT ![u].exists = FALSE]
    /\ fsEvents' = fsEvents + 1
    /\ UNCHANGED <<now, composer, faults, cache, folders, config, indexing, cancelled, disposed, runs,
                   declined, engine, watch>>

(* ------------------------------------------------------------------ *)
(* Initial states and the next-state relation                           *)
(* ------------------------------------------------------------------ *)
NoManifest == [state |-> "missing", require |-> <<>>, requireDev |-> <<>>]
BadManifest == [state |-> "unparsable", require |-> <<>>, requireDev |-> <<>>]
ManifestP == [state |-> "ok", require |-> <<"p">>, requireDev |-> <<>>]

\* no settings received: every getConfigValue falls back to its default
NoSettings == [has |-> {}, values |-> [k \in {} |-> 0]]

\* settings with a size ceiling of 2 and an empty association list
Settings(useComposerJson) ==
    [has |-> {"files.maxSize", "files.associations", "files.exclude",
              "indexer.useComposerJson"},
     values |-> [k \in {"files.maxSize", "files.associations", "files.exclude",
                        "indexer.useComposerJson"} |->
                    CASE k = "files.maxSize" -> 2
                      [] k = "files.associations" -> <<>>
                      [] k = "files.exclude" -> <<>>
                      [] OTHER -> useComposerJson]]

\* the exclude pattern 's/**', and settings that carry it with the
\* association '*.php'
ExcludeS == <<"s", "/", "**">>

SettingsExcludingS ==
    [Settings(TRUE) EXCEPT !.values = [@ EXCEPT !["files.exclude"] = <<ExcludeS>>,
                                                !["files.associations"] = <<PhpGlob>>]]

InitFolders == {addFolders(<<>>, <<ClientFolder(FolderA)>>),
                addFolders(<<>>, <<ClientFolder(WithoutSlash(FolderA)),
                                   ClientFolder(FolderS)>>)}

\* the files the scenarios change on disk
ChangingUris == {FileB, FileX}

Init ==
    /\ now = 1
    /\ files = [u \in Uris |-> [exists |-> TRUE, modified |-> 0]]
    /\ composer = [f \in FolderUris |-> NoManifest]
    /\ faults = [f \in FolderUris |-> {}]
    /\ cache = NoCache
    /\ fsEvents = 0
    /\ folders \in InitFolders
    /\ config = Settings(TRUE)
    /\ indexing = NoRun
    /\ cancelled = {}
    /\ disposed = {}
    /\ runs = [r \in RunIds |-> UnusedRun]
    /\ declined = [returned |-> FALSE, result |-> ZeroResult]
    /\ engine \in {[docs |-> d] : d \in {{}, {FileB, FileX}}}
    /\ watch = [b \in BatchIds |-> UnusedBatch]

Next ==
    \/ \E restart \in BOOLEAN : IndexWorkspace(restart)
    \/ cancelIndexing
    \/ \E r \in RunIds : DiscoverDone(r)
    \/ \E r \in RunIds : ReadDone(r)
    \/ \E r \in RunIds : SubmitDone(r)
    \/ \E r \in RunIds : ForgetDone(r)
    \/ \E f \in {FolderS, WithoutSlash(FolderS)} :
          \/ DidChangeWorkspaceFolders(<<ClientFolder(f)>>, <<>>)
          \/ DidChangeWorkspaceFolders(<<>>, <<ClientFolder(f)>>)
    \/ Tick
    \/ \E u \in ChangingUris : TouchFile(u)
    \/ \E u \in ChangingUris : DeleteFile(u)

Spec == Init /\ [][Next]_vars

(* ------------------------------------------------------------------ *)
(* Discovery on its own: one run over every small file system           *)
(* ------------------------------------------------------------------ *)
Manifests == {NoManifest, BadManifest, ManifestP}

DiscoveryInit ==
    /\ now = 1
    /\ files \in [Uris -> {[exists |-> TRUE, modified |-> 0], [exists |-> FALSE, modified |-> 0]}]
    /\ composer \in [FolderUris -> Manifests]
    /\ faults = [f \in FolderUris |-> {}]
    /\ cache = NoCache
    /\ fsEvents = 0
    /\ folders \in InitFolders
    /\ config \in {Settings(TRUE), Settings(FALSE), NoSettings}
    /\ indexing = NoRun
    /\ cancelled = {}
    /\ disposed = {}
    /\ runs = [r \in RunIds |-> UnusedRun]
    /\ declined = [returned |-> FALSE, result |-> ZeroResult]
    /\ engine \in {[docs |-> d] : d \in {{}, {FileB, FileX}}}
    /\ watch = [b \in BatchIds |-> UnusedBatch]

DiscoveryNext ==
    \/ /\ indexing = NoRun
       /\ IndexWorkspace(FALSE)
    \/ \E r \in RunIds : DiscoverDone(r)
    \/ \E r \in RunIds : ReadDone(r)
    \/ \E r \in RunIds : SubmitDone(r)
    \/ \E r \in RunIds : ForgetDone(r)

DiscoverySpec == DiscoveryInit /\ [][DiscoveryNext]_vars

(* ------------------------------------------------------------------ *)
(* The incremental path on its own: file-watch batches over a changing  *)
(* file system                                                          *)
(* ------------------------------------------------------------------ *)
WatchInit ==
    /\ now = 1
    /\ files \in [Uris -> {[exists |-> TRUE, modified |-> 0], [exists |-> FALSE, modified |-> 0]}]
    /\ composer \in {[f \in FolderUris |-> IF f = FolderA THEN m ELSE NoManifest] :
                        m \in Manifests}
    /\ faults = [f \in FolderUris |-> {}]
    /\ cache = NoCache
    /\ fsEvents = 0
    /\ folders \in InitFolders
    /\ config \in {Settings(TRUE), Settings(FALSE), NoSettings, SettingsExcludingS}
    /\ indexing = NoRun
    /\ cancelled = {}
    /\ disposed = {}
    /\ runs = [r \in RunIds |-> UnusedRun]
    /\ declined = [returned |-> FALSE, result |-> ZeroResult]
    /\ engine \in {[docs |-> d] : d \in {{}, {FileB, FileX}}}
    /\ watch = [b \in BatchIds |-> UnusedBatch]

WatchNext ==
    \/ \E u \in Uris :
          \/ DidChangeWatchedFiles(<<u>>, <<>>)
          \/ DidChangeWatchedFiles(<<>>, <<u>>)
          \/ \E v \in Uris : DidChangeWatchedFiles(<<u>>, <<v>>)
    \/ \E b \in BatchIds : WatchForgetDone(b)
    \/ \E b \in BatchIds : WatchFilterDone(b)
    \/ \E b \in BatchIds : WatchReadDone(b)
    \/ \E b \in BatchIds : WatchSubmitDone(b)
    \/ \E u \in Uris : DeleteFile(u)

WatchSpec == WatchInit /\ [][WatchNext]_vars

(* ------------------------------------------------------------------ *)
(* Discovery over folders whose searches or manifest reads fail         *)
(* ------------------------------------------------------------------ *)
\* a composer.json that exists and cannot be read (EACCES)
UnreadableManifest == [state |-> "unreadable", require |-> <<>>, requireDev |-> <<>>]

\* the searches of findFilesInFolder that can reject
Phases == {"vendor", "source"}

FaultInit ==
    /\ now = 1
    /\ files = [u \in Uris |-> [exists |-> TRUE, modified |-> 0]]
    /\ composer \in [FolderUris -> {ManifestP, UnreadableManifest}]
    /\ faults \in [FolderUris -> SUBSET Phases]
    /\ cache = NoCache
    /\ fsEvents = 0
    /\ folders \in InitFolders
    /\ config = Settings(TRUE)
    /\ indexing = NoRun
    /\ cancelled = {}
    /\ disposed = {}
    /\ runs = [r \in RunIds |-> UnusedRun]
    /\ declined = [returned |-> FALSE, result |-> ZeroResult]
    /\ engine \in {[docs |-> d] : d \in {{}, {FileB, FileX}}}
    /\ watch = [b \in BatchIds |-> UnusedBatch]

FaultSpec == FaultInit /\ [][DiscoveryNext]_vars

(* ------------------------------------------------------------------ *)
(* The cache on its own: every key, every small record set              *)
(* ------------------------------------------------------------------ *)
CacheInit ==
    /\ now = 1
    /\ files = [u \in Uris |-> [exists |-> TRUE, modified |-> 0]]
    /\ composer = [f \in FolderUris |-> NoManifest]
    /\ faults = [f \in FolderUris |-> {}]
    /\ cache = NoCache
    /\ fsEvents = 0
    /\ folders = addFolders(<<>>, <<ClientFolder(FolderA)>>)
    /\ config = Settings(TRUE)
    /\ indexing = NoRun
    /\ cancelled = {}
    /\ disposed = {}
    /\ runs = [r \in RunIds |-> UnusedRun]
    /\ declined = [returned |-> FALSE, result |-> ZeroResult]
    /\ engine = [docs |-> {}]
    /\ watch = [b \in BatchIds |-> UnusedBatch]

CacheNext ==
    \/ \E fails \in BOOLEAN : CacheCreate(fails)
    \/ \E key \in Keys : \E data \in RecordSets : CachePut(key, data)
    \/ CachePutOpened
    \/ CachePutFinished
    \/ \E key \in Keys : CacheGet(key)
    \/ CacheGetDone
    \/ \E key \in Keys : CacheDel(key)
    \/ CacheDispose
    \/ \E key \in Keys : \E how \in {"text", "mode"} : CacheFileDamaged(key, how)

CacheSpec == CacheInit /\ [][CacheNext]_vars

(* ------------------------------------------------------------------ *)
(* The folder mapping on its own: folder events from an empty mapping   *)
(* ------------------------------------------------------------------ *)
\* the folders a client names, each uri with and without its separator
NamedFolders ==
    UNION {{[uri |-> f, name |-> "slash"], [uri |-> WithoutSlash(f), name |-> "bare"]} :
              f \in FolderUris}

FolderInit ==
    /\ now = 1
    /\ files = [u \in Uris |-> [exists |-> TRUE, modified |-> 0]]
    /\ composer = [f \in FolderUris |-> NoManifest]
    /\ faults = [f \in FolderUris |-> {}]
    /\ cache = NoCache
    /\ fsEvents = 0
    /\ folders = <<>>
    /\ config = Settings(TRUE)
    /\ indexing = NoRun
    /\ cancelled = {}
    /\ disposed = {}
    /\ runs = [r \in RunIds |-> UnusedRun]
    /\ declined = [returned |-> FALSE, result |-> ZeroResult]
    /\ engine = [docs |-> {}]
    /\ watch = [b \in BatchIds |-> UnusedBatch]

FolderNext ==
    \/ \E a \in NamedFolders : DidChangeWorkspaceFolders(<<a>>, <<>>)
    \/ \E a \in NamedFolders : DidChangeWorkspaceFolders(<<>>, <<a>>)
    \/ \E a, b \in NamedFolders : DidChangeWorkspaceFolders(<<a, b>>, <<>>)
    \/ \E a, b \in NamedFolders : DidChangeWorkspaceFolders(<<a>>, <<b>>)

FolderSpec == FolderInit /\ [][FolderNext]_vars

(* ------------------------------------------------------------------ *)
(* Vendor packages: two passes over folders that declare the same       *)
(* package                                                              *)
(* ------------------------------------------------------------------ *)
\* a manifest that declares p under require and under require-dev
ManifestPP == [state |-> "ok", require |-> <<"p">>, requireDev |-> <<"p">>]

\* the two folders, in either order
VendorFolders == {addFolders(<<>>, <<ClientFolder(FolderA), ClientFolder(FolderS)>>),
                  addFolders(<<>>, <<ClientFolder(FolderS), ClientFolder(FolderA)>>)}

VendorInit ==
    /\ now = 1
    /\ files \in [Uris \cup {FileW} ->
                     {[exists |-> TRUE, modified |-> 0], [exists |-> FALSE, modified |-> 0]}]
    /\ files[FileB].exists /\ files[FileX].exists /\ files[FileY].exists
    /\ composer \in [FolderUris -> {NoManifest, ManifestP, ManifestPP}]
    /\ faults = [f \in FolderUris |-> {}]
    /\ cache = NoCache
    /\ fsEvents = 0
    /\ folders \in VendorFolders
    /\ config = Settings(TRUE)
    /\ indexing = NoRun
    /\ cancelled = {}
    /\ disposed = {}
    /\ runs = [r \in RunIds |-> UnusedRun]
    /\ declined = [returned |-> FALSE, result |-> ZeroResult]
    /\ engine = [docs |-> {}]
    /\ watch = [b \in BatchIds |-> UnusedBatch]

VendorNext ==
    \/ IndexWorkspace(TRUE)
    \/ \E r \in RunIds : DiscoverDone(r)
    \/ \E r \in RunIds : ReadDone(r)
    \/ \E r \in RunIds : SubmitDone(r)

VendorSpec == VendorInit /\ [][VendorNext]_vars

(* ------------------------------------------------------------------ *)
(* A full run and a file-watch batch together                           *)
(* ------------------------------------------------------------------ *)
MixedInit ==
    /\ now = 1
    /\ files = [u \in Uris |-> [exists |-> TRUE, modified |-> 0]]
    /\ composer = [f \in FolderUris |-> NoManifest]
    /\ faults = [f \in FolderUris |-> {}]
    /\ cache = NoCache
    /\ fsEvents = 0
    /\ folders = addFolders(<<>>, <<ClientFolder(FolderA)>>)
    /\ config \in {Settings(TRUE), NoSettings}
    /\ indexing = NoRun
    /\ cancelled = {}
    /\ disposed = {}
    /\ runs = [r \in RunIds |-> UnusedRun]
    /\ declined = [returned |-> FALSE, result |-> ZeroResult]
    /\ engine \in {[docs |-> d] : d \in {{}, {FileV}}}
    /\ watch = [b \in BatchIds |-> UnusedBatch]

MixedNext ==
    \/ /\ indexing = NoRun
       /\ IndexWorkspace(FALSE)
    \/ \E r \in RunIds : DiscoverDone(r)
    \/ \E r \in RunIds : ReadDone(r)
    \/ \E r \in RunIds : SubmitDone(r)
    \/ \E r \in RunIds : ForgetDone(r)
    \/ \E u, v \in {FileX, FileY} : DidChangeWatchedFiles(<<u>>, <<v>>)
    \/ \E b \in BatchIds : WatchForgetDone(b)
    \/ \E b \in BatchIds : WatchFilterDone(b)
    \/ \E b \in BatchIds : WatchReadDone(b)
    \/ \E b \in BatchIds : WatchSubmitDone(b)

MixedSpec == MixedInit /\ [][MixedNext]_vars

(* ------------------------------------------------------------------ *)
(* Runs under fair scheduling: every awaited discovery, read and engine *)
(* call settles and every setImmediate callback is eventually run       *)
(* ------------------------------------------------------------------ *)
FairNext ==
    \/ \E restart \in BOOLEAN : IndexWorkspace(restart)
    \/ cancelIndexing
    \/ \E r \in RunIds : DiscoverDone(r)
    \/ \E r \in RunIds : ReadDone(r)
    \/ \E r \in RunIds : SubmitDone(r)
    \/ \E r \in RunIds : ForgetDone(r)
    \/ \E u \in ChangingUris : DeleteFile(u)

\* weak fairness of each continuation a run can be waiting for; for
\* DiscoverDone(r) it is written out with its enabling condition, a run
\* waiting for its discovery
Fairness ==
    \A r \in RunIds :
        /\ []<>(runs[r].pc # "discovering") \/ []<><<DiscoverDone(r)>>_vars
        /\ WF_vars(ReadDone(r) \/ SubmitDone(r) \/ ForgetDone(r))

FairSpec == Init /\ [][FairNext]_vars /\ Fairness

(* ------------------------------------------------------------------ *)
(* A folder added, then removed under the uri the client added it with  *)
(* ------------------------------------------------------------------ *)
UndoNext ==
    \/ /\ runs[1].pc = "unused"
       /\ \E a \in NamedFolders : DidChangeWorkspaceFolders(<<a>>, <<>>)
    \/ /\ runs[1].pc # "unused" /\ runs[2].pc = "unused"
       \* the second notification carries the uri of the first as the client
       \* wrote it, in a folder object of its own
       /\ \E b \in NamedFolders :
             /\ b.name = runs[1].folderSnap[1].name
             /\ NormalisedFolder(b).uri = runs[1].folderSnap[1].uri
             /\ DidChangeWorkspaceFolders(<<>>, <<b>>)
    \/ \E r \in RunIds : DiscoverDone(r)
    \/ \E r \in RunIds : ReadDone(r)
    \/ \E r \in RunIds : SubmitDone(r)
    \/ \E r \in RunIds : ForgetDone(r)

UndoSpec == FolderInit /\ [][UndoNext]_vars

(* ------------------------------------------------------------------ *)
(* A run restarted over another, with no file-watch events              *)
(* ------------------------------------------------------------------ *)
RestartInit ==
    /\ now = 1
    /\ files = [u \in Uris |-> [exists |-> TRUE, modified |-> 0]]
    /\ composer = [f \in FolderUris |-> NoManifest]
    /\ faults = [f \in FolderUris |-> {}]
    /\ cache = NoCache
    /\ fsEvents = 0
    /\ folders \in InitFolders \cup {addFolders(<<>>, <<ClientFolder(FolderS)>>)}
    /\ config = Settings(TRUE)
    /\ indexing = NoRun
    /\ cancelled = {}
    /\ disposed = {}
    /\ runs = [r \in RunIds |-> UnusedRun]
    /\ declined = [returned |-> FALSE, result |-> ZeroResult]
    /\ engine \in {[docs |-> d] : d \in {{}, {FileB, FileX}}}
    /\ watch = [b \in BatchIds |-> UnusedBatch]

RestartNext ==
    \/ /\ indexing = NoRun
       /\ IndexWorkspace(FALSE)
    \/ IndexWorkspace(TRUE)
    \/ DidChangeWorkspaceFolders(<<>>, <<ClientFolder(FolderS)>>)
    \/ \E r \in RunIds : DiscoverDone(r)
    \/ \E r \in RunIds : ReadDone(r)
    \/ \E r \in RunIds : SubmitDone(r)
    \/ \E r \in RunIds : ForgetDone(r)
    \/ \E u \in ChangingUris : DeleteFile(u)

RestartSpec == RestartInit /\ [][RestartNext]_vars

(* ------------------------------------------------------------------ *)
(* Properties                                                           *)
(* ------------------------------------------------------------------ *)
Started(r) == runs[r].pc # "unused"
Done(r) == runs[r].pc = "done"
Discovered(r) == {runs[r].files[i].uri : i \in 1..Len(runs[r].files)}
Walked(r) == runs[r].pc \in {"reading", "submitting", "forgetting", "done"}

\* C1: when an indexWorkspace run has returned, the active-run state is
\* cleared: the coordinator no longer holds that run's cancellation handle, so
\* it is idle and a later indexWorkspace(false) starts a new run.
C1_ReturnClearsActiveRun == \A r \in RunIds : Done(r) => indexing # r

\* C2: at most one full-workspace run whose cancellation has not been
\* requested is active at any time, it is the one the coordinator holds, and
\* every other started run has had its handle cancelled and released.
C2_AtMostOneActiveRun ==
    /\ Cardinality({r \in RunIds : runs[r].pc \in ActivePcs /\ r \notin cancelled}) <= 1
    /\ \A r \in RunIds : runs[r].pc \in ActivePcs /\ r \notin cancelled => indexing = r
    /\ \A r \in RunIds : Started(r) /\ indexing # r => r \in cancelled /\ r \in disposed

\* C2 witness: a restart has replaced a run that is still winding down
C2_Witness ==
    \E r1, r2 \in RunIds :
        /\ r1 # r2
        /\ runs[r1].pc \in ActivePcs /\ r1 \in cancelled
        /\ runs[r2].pc \in ActivePcs /\ runs[r2].restart /\ indexing = r2

\* C3: indexWorkspace(false) called while a run is active returns
\* wasCancelled=true with all counters zero, and changes nothing else: not the
\* handle, not its cancellation state, no run, no engine document, no setting.
C3_DeclineHasNoEffect ==
    /\ [](declined.returned =>
            /\ declined.result.wasCancelled
            /\ declined.result.totalFileCount = 0
            /\ declined.result.indexedFileCount = 0
            /\ declined.result.forgottenFileCount = 0
            /\ declined.result.symbolCount = 0)
    /\ [][declined' # declined =>
            /\ isIndexing
            /\ UNCHANGED <<now, files, composer, faults, cache, fsEvents, folders, config, indexing,
                           cancelled, disposed, runs, engine, watch>>]_vars

\* C3 witness: a call has declined while a run is walking
C3_Witness ==
    /\ declined.returned
    /\ \E r \in RunIds : indexing = r /\ runs[r].pc = "reading" /\ r \notin cancelled

C5_DiffCorrect ==
    \A r \in RunIds :
        Done(r) /\ ~runs[r].result.wasCancelled =>
            /\ runs[r].result.forgottenFileCount = Cardinality(runs[r].known0 \ Discovered(r))
            /\ Range(runs[r].forgets) = runs[r].known0 \ Discovered(r)
            /\ Len(runs[r].forgets) = Cardinality(runs[r].known0 \ Discovered(r))

\* C5 witness: a completed run that forgot a known uri and kept a discovered one
C5_Witness ==
    \E r \in RunIds :
        /\ Done(r) /\ ~runs[r].result.wasCancelled
        /\ Len(runs[r].forgets) >= 1
        /\ runs[r].known0 \cap Discovered(r) # {}

\* C6: a run whose cancellation is requested while it walks the discovered
\* files executes no forget pass, and when it returns its result has
\* wasCancelled=true.
C6_CancelledWalkForgetsNothing ==
    \A r \in RunIds :
        runs[r].cancelledAt \in {"reading", "submitting"} =>
            /\ runs[r].forgets = <<>>
            /\ runs[r].pc \in {"reading", "submitting", "done"}
            /\ (Done(r) => runs[r].result.wasCancelled)

\* C6 witness: a run cancelled mid-walk has returned with known uris left over
C6_Witness ==
    \E r \in RunIds :
        /\ runs[r].cancelledAt \in {"reading", "submitting"}
        /\ Done(r)
        /\ runs[r].known # {}
        /\ runs[r].result.indexedFileCount >= 1

C9_FreshRunIndexesAll ==
    \A r \in RunIds :
        ( /\ Done(r) /\ ~runs[r].result.wasCancelled
          /\ runs[r].known0 = {}
          /\ runs[r].unread = <<>>
          /\ \A i \in 1..Len(runs[r].files) : runs[r].files[i].size <= runs[r].maxFileSize )
        => /\ runs[r].result.indexedFileCount = Len(runs[r].files)
           /\ runs[r].result.forgottenFileCount = 0
           /\ runs[r].submitted = [i \in 1..Len(runs[r].files) |-> runs[r].files[i].uri]
           /\ runs[r].result.symbolCount =
                 SeqSum([i \in 1..Len(runs[r].files) |-> SymbolsIn(runs[r].files[i].uri)])

\* C9 witness: such a run over two files
C9_Witness ==
    \E r \in RunIds :
        /\ Done(r) /\ ~runs[r].result.wasCancelled
        /\ runs[r].known0 = {}
        /\ runs[r].unread = <<>>
        /\ Len(runs[r].files) = 2
        /\ \A i \in 1..Len(runs[r].files) : runs[r].files[i].size <= runs[r].maxFileSize
        /\ runs[r].result.symbolCount = 3

\* the manifest of every folder of the run's snapshot is unparsable
AllManifestsUnparsable(r) ==
    /\ Len(runs[r].folderSnap) >= 1
    /\ \A i \in 1..Len(runs[r].folderSnap) :
          composer[runs[r].folderSnap[i].uri].state = "unparsable"

\* what discovery of the run's folders returns with composer integration off
DiscoveredWithoutComposer(r) ==
    Range(findFiles(runs[r].folderSnap, runs[r].associations, runs[r].exclude,
                    FALSE, {}, files, composer, faults))

\* the same, folder by folder, less each folder's files under its vendor/
DiscoveredWithoutComposerOutsideVendor(r) ==
    UNION {{fi \in Range(findFilesInFolder(runs[r].folderSnap[i].uri, runs[r].associations,
                                           runs[r].exclude, FALSE, {}, files,
                                           composer[runs[r].folderSnap[i].uri],
                                           faults[runs[r].folderSnap[i].uri])) :
               ~IsPrefix(runs[r].folderSnap[i].uri \o <<"vendor", "/">>, fi.uri)} :
           i \in 1..Len(runs[r].folderSnap)}

HasDiscoveryError(r) ==
    \E i \in 1..Len(runs[r].folderSnap) :
        \/ faults[runs[r].folderSnap[i].uri] # {}
        \/ composer[runs[r].folderSnap[i].uri].state = "unreadable"

\* what the folders of the run whose searches all succeed hold
FilesOfSoundFolders(r) ==
    UNION {Range(findFilesInFolder(runs[r].folderSnap[i].uri, runs[r].associations,
                                   runs[r].exclude, runs[r].useComposerJson, {}, files,
                                   composer[runs[r].folderSnap[i].uri], {})) :
           i \in {j \in 1..Len(runs[r].folderSnap) :
                     faults[runs[r].folderSnap[j].uri] = {}}}

\* what discovery returns when no search fails
FilesWithoutFaults(r) ==
    Range(findFiles(runs[r].folderSnap, runs[r].associations, runs[r].exclude,
                    runs[r].useComposerJson, {}, files, composer,
                    [f \in FolderUris |-> {}]))

\* C11: a run over folders of which one has a failing search or manifest read
\* is never aborted: its discovery resolves, with the files of every folder
\* whose searches succeed and nothing that a fault-free discovery would not
\* return.
C11_DiscoveryErrorNeverAborts ==
    \A r \in RunIds :
        Started(r) /\ HasDiscoveryError(r) =>
            /\ runs[r].pc # "rejected"
            /\ Walked(r) =>
                  /\ FilesOfSoundFolders(r) \subseteq Range(runs[r].files)
                  /\ Range(runs[r].files) \subseteq FilesWithoutFaults(r)

\* C11, the part that holds: once discovery has resolved, a failed phase has
\* contributed nothing and every other folder all of its files
C11_FailedPhaseDegrades ==
    \A r \in RunIds :
        Walked(r) /\ HasDiscoveryError(r) =>
            /\ FilesOfSoundFolders(r) \subseteq Range(runs[r].files)
            /\ Range(runs[r].files) \subseteq FilesWithoutFaults(r)
            /\ (\A i \in 1..Len(runs[r].folderSnap) :
                    faults[runs[r].folderSnap[i].uri] = Phases) => runs[r].files = <<>>

\* a run over folder a/, whose source search fails, and a/s/, which is sound,
\* has discovered the file of a/s/ and not those of a/
C11_FailedPhaseWitness ==
    \E r \in RunIds :
        /\ Walked(r)
        /\ Len(runs[r].folderSnap) = 2
        /\ faults[FolderA] = {"source"} /\ faults[FolderS] = {}
        /\ Discovered(r) = {FileY}

(* ------------------------------------------------------------------ *)
(* C12                                                                  *)
(* ------------------------------------------------------------------ *)
\* uri lies under folder f, matches an association there and none of the
\* exclude patterns
AdmittedBy(f, uri, associations, exclude) ==
    /\ IsPrefix(f, uri)
    /\ Len(uri) > Len(f)
    /\ \E i \in 1..Len(associations) : GlobMatches(associations[i], RelPath(f, uri), TRUE)
    /\ ~\E i \in 1..Len(exclude) : IgnoreMatches(exclude[i], RelPath(f, uri))

GetSettled == cache.get.pc \in {"resolved", "rejected"}

\* C13: a get that reads a key after a put of that key has resolved, with
\* nothing done to the key in between, resolves with the records that were
\* put, in their order.
C13_PutThenGetRoundTrip ==
    GetSettled /\ cache.get.expect.known =>
        /\ cache.get.pc = "resolved"
        /\ cache.get.items = cache.get.expect.records

\* C13, the part that holds: the round trip of a record set none of whose
\* records is itself null (null inside a record is kept)
C13_RoundTripOfNonNullRecords ==
    GetSettled /\ cache.get.expect.known
    /\ (\A i \in 1..Len(cache.get.expect.records) : cache.get.expect.records[i] # JNull) =>
        /\ cache.get.pc = "resolved"
        /\ cache.get.items = cache.get.expect.records

\* a get has returned two records, an object and an array that hold null
C13_NonNullWitness ==
    /\ cache.get.pc = "resolved"
    /\ cache.get.expect.known
    /\ cache.get.items = <<JObj(<<JMember("a", JNull)>>), JArr(<<JNull, JNum>>)>>

(* ------------------------------------------------------------------ *)
(* C14                                                                  *)
(* ------------------------------------------------------------------ *)
\* C14: a get of a key that was never written, or whose file del removed,
\* or whose file is missing for any reason, resolves with no items; a get
\* that meets a file it cannot read or a text that is not JSON fails.
C14_MissResolvesEmptyOtherErrorsFail ==
    GetSettled =>
        /\ (cache.get.never \/ cache.get.gone \/ cache.get.found = "missing") =>
              (cache.get.pc = "resolved" /\ cache.get.items = <<>>)
        /\ cache.get.found \in {"unreadable", "malformed"} => cache.get.pc = "rejected"

\* a get of a key that was put and then removed by del has resolved
C14_Witness ==
    /\ cache.get.pc = "resolved"
    /\ cache.get.gone
    /\ cache.get.found = "missing"
    /\ cache.get.key \in cache.everPut

\* a get has failed on a text that is not JSON
C14_MalformedWitness == cache.get.pc = "rejected" /\ cache.get.found = "malformed"

(* ------------------------------------------------------------------ *)
(* C15                                                                  *)
(* ------------------------------------------------------------------ *)
\* C15: once dispose has resolved, the cache directory is gone and so is the
\* backing file of every key that was put.
C15_DisposeRemovesDirectory ==
    cache.dispose = "resolved" => (~cache.left.dir /\ cache.left.keys = {})

(* ------------------------------------------------------------------ *)
(* C16                                                                  *)
(* ------------------------------------------------------------------ *)
\* C16: every key of the folder mapping ends with '/', is the uri of the
\* folder stored under it, and is the key of no other entry.
C16_FolderKeysNormalised ==
    \A i \in 1..Len(folders) :
        /\ EndsWithSlash(folders[i].key)
        /\ folders[i].key = folders[i].folder.uri
        /\ \A j \in 1..Len(folders) : folders[j].key = folders[i].key => j = i

\* file:/a/s was added, then file:/a/s/: the mapping holds the one entry
\* file:/a/s/, with the folder of the second call
C16_Witness ==
    /\ runs[1].folderSnap = <<[uri |-> FolderS, name |-> "bare"]>>
    /\ runs[2].pc # "unused"
    /\ folders = <<[key |-> FolderS, folder |-> [uri |-> FolderS, name |-> "slash"]]>>

(* ------------------------------------------------------------------ *)
(* C17                                                                  *)
(* ------------------------------------------------------------------ *)
\* the uris a run has read: those it submitted and those whose read failed
ReadBy(r) == Range(runs[r].submitted) \cup Range(runs[r].unread)

\* the walk of run r has treated each discovered file by its snapshot: a
\* known file older than the timestamp is passed over, a file under the cap
\* that is unknown or not older is read (and submitted when the read gave a
\* document), and no discovered uri is left in the remaining-known set
WalkFollowsSnapshot(r) ==
    /\ \A i \in 1..Len(runs[r].files) :
          LET file == runs[r].files[i]
          IN  /\ (file.uri \in runs[r].known0 /\ file.modified < runs[r].timestamp) =>
                    file.uri \notin ReadBy(r)
              /\ (file.size <= runs[r].maxFileSize
                  /\ (file.uri \notin runs[r].known0 \/ file.modified >= runs[r].timestamp)) =>
                    file.uri \in ReadBy(r)
    /\ runs[r].known \cap Discovered(r) = {}

\* no uri occurs twice among the discovered files of run r
DistinctFiles(r) ==
    \A i, j \in 1..Len(runs[r].files) : runs[r].files[i].uri = runs[r].files[j].uri => i = j

C17_WalkOverDistinctFiles ==
    \A r \in RunIds :
        Done(r) /\ ~runs[r].result.wasCancelled /\ DistinctFiles(r) => WalkFollowsSnapshot(r)

\* a completed run skipped a known unchanged file and submitted another file
C17_DistinctWitness ==
    \E r \in RunIds :
        /\ Done(r) /\ ~runs[r].result.wasCancelled /\ DistinctFiles(r)
        /\ Len(runs[r].submitted) >= 1
        /\ \E i \in 1..Len(runs[r].files) :
              /\ runs[r].files[i].uri \in runs[r].known0
              /\ runs[r].files[i].modified < runs[r].timestamp

(* ------------------------------------------------------------------ *)
(* C18                                                                  *)
(* ------------------------------------------------------------------ *)
\* what a step may do to a run whose handle has been signalled: it starts
\* the read of no file, it submits only the file whose read or submission
\* was in flight, and the engine receives a document only from a submission
\* that was in flight
CancelledRunWindsDown(r) ==
    r \in cancelled =>
        /\ runs'[r].pc = "reading" => (runs[r].pc = "reading" /\ runs'[r].n = runs[r].n)
        /\ runs'[r].pc = "submitting" =>
              (runs[r].pc \in {"reading", "submitting"} /\ runs'[r].n = runs[r].n)
        /\ Len(runs'[r].submitted) > Len(runs[r].submitted) =>
              (runs[r].pc = "submitting"
               /\ runs'[r].submitted = Append(runs[r].submitted, runs[r].files[runs[r].n].uri))
        /\ runs'[r].n \in {runs[r].n, runs[r].n + 1}

\* C18: once a run's handle is signalled, the run finishes at most the file
\* whose read or submission was in flight, starts on no further file and
\* submits nothing else.
C18_CancelObservedBetweenFiles ==
    [][\A r \in RunIds : CancelledRunWindsDown(r)]_vars

\* a run cancelled while it read a/s/y.php has submitted that file, has
\* returned, and has left a/x.php unprocessed
C18_Witness ==
    \E r \in RunIds :
        /\ runs[r].cancelledAt = "reading"
        /\ Done(r)
        /\ runs[r].submitted = <<FileY>>
        /\ runs[r].n <= Len(runs[r].files)
        /\ runs[r].result.wasCancelled

(* ------------------------------------------------------------------ *)
(* C19                                                                  *)
(* ------------------------------------------------------------------ *)
\* the manifest of the i-th folder of run r declares package p
Declares(r, i, p) ==
    p \in Range(readComposerPackages(composer[runs[r].folderSnap[i].uri]))

\* the i-th folder of run r is the first of its folders to declare p
FirstToDeclare(r, i, p) ==
    /\ Declares(r, i, p)
    /\ \A j \in 1..(i - 1) : ~Declares(r, j, p)

\* how often uri occurs in a sequence of file infos
Occurrences(fileInfos, uri) == Cardinality({k \in 1..Len(fileInfos) : fileInfos[k].uri = uri})

\* how often the source phases of the folders of run r return uri
SourceOccurrences(r, uri) ==
    Cardinality({j \in 1..Len(runs[r].folderSnap) :
        uri \in {fi.uri : fi \in Range(SourcePhase(runs[r].folderSnap[j].uri,
                                                   runs[r].associations, runs[r].exclude,
                                                   runs[r].useComposerJson, files, {}))}})

\* the existing files of package p under the vendor directory of folder f
PackageFiles(f, p) ==
    {u \in DOMAIN files : files[u].exists /\ IsPrefix(f \o <<"vendor", "/", p, "/">>, u)}

\* C19: in every pass with composer integration on, the files of a package
\* under a folder's vendor directory are found by a vendor search of that
\* folder exactly when the folder is the first in folder order to declare
\* the package, in a second pass as in the first.
C19_PackageSearchedForFirstFolderOnly ==
    \A r \in RunIds :
        Walked(r) /\ runs[r].useComposerJson =>
            \A i \in 1..Len(runs[r].folderSnap) :
                \A u \in PackageFiles(runs[r].folderSnap[i].uri, "p") :
                    Occurrences(runs[r].files, u) =
                        (IF FirstToDeclare(r, i, "p") THEN 1 ELSE 0) + SourceOccurrences(r, u)

\* two passes over a/ then a/s/, both of which declare p: each pass found
\* the package file of a/ once and that of a/s/ by no vendor search
C19_Witness ==
    /\ \A r \in RunIds :
          /\ Walked(r)
          /\ Len(runs[r].folderSnap) = 2 /\ runs[r].folderSnap[1].uri = FolderA
          /\ Occurrences(runs[r].files, FileV) = 1
          /\ Occurrences(runs[r].files, FileW) = 1
    /\ \A f \in FolderUris : "p" \in Range(readComposerPackages(composer[f]))

Visited(r) == Len(runs[r].submitted) + Len(runs[r].unread)

\* a step of run r moves it forward: the position in the discovered files
\* and the position in the forget list never go back, every file read or
\* submitted moves the first on, every forget moves the second on by one
RunAdvances(r) ==
    /\ runs[r].pc \in ActivePcs
    /\ runs'[r] # runs[r]
    /\ runs'[r].cancelledAt = runs[r].cancelledAt
    => /\ runs'[r].n >= runs[r].n
       /\ runs'[r].k >= runs[r].k
       /\ runs[r].pc = "submitting" => runs'[r].n > runs[r].n
       /\ runs[r].pc = "reading" => runs'[r].n > runs[r].n \/ runs'[r].pc = "submitting"
       /\ runs[r].pc = "forgetting" => runs'[r].k = runs[r].k + 1
       /\ runs[r].pc = "discovering" => runs'[r].pc # "discovering"

\* the forget pass goes through the remaining known uris, each once
ForgetPassOnce(r) ==
    /\ IsPrefix(runs[r].forgets, runs[r].forgetList)
    /\ runs[r].pc = "forgetting"
       => /\ Range(runs[r].forgetList) = runs[r].known
          /\ Len(runs[r].forgetList) = Cardinality(runs[r].known)
    /\ Visited(r) <= Len(runs[r].files)

C22_UncancelledCountIsForgetsIssued ==
    \A r \in RunIds :
        runs[r].pc = "done" /\ ~runs[r].result.wasCancelled
        => runs[r].result.forgottenFileCount = Len(runs[r].forgets)

(* ------------------------------------------------------------------ *)
(* C23                                                                  *)
(* ------------------------------------------------------------------ *)
\* the folder was added by one notification and removed by the next
AddedThenRemoved == runs[1].pc # "unused" /\ runs[2].pc # "unused"

\* nothing is left of the folder: the mapping is empty, and the run started
\* after the removal searches no folder and finds no file
FolderGone ==
    /\ folders = <<>>
    /\ runs[2].folderSnap = <<>>
    /\ runs[2].pc = "done" => runs[2].files = <<>>

\* C23: after addFolder(u) and removeFolder with the same original uri u,
\* given with or without a trailing '/', no folder for u remains and the
\* discovery that follows does not search it.
C23_RemoveUndoesAdd == AddedThenRemoved => FolderGone

\* the same for a uri the client gives with its trailing '/'
C23_RemoveUndoesAddOfSlashUri ==
    AddedThenRemoved /\ runs[1].folderSnap[1].name = "slash" => FolderGone

C23_SlashUriWitness ==
    /\ AddedThenRemoved
    /\ runs[1].folderSnap[1].name = "slash"
    /\ runs[2].pc = "done"

RestartedRunReturned(r) ==
    /\ runs[r].pc = "done"
    /\ runs[r].restart
    /\ ~runs[r].result.wasCancelled
    /\ \E q \in RunIds : q < r /\ runs[q].cancelledAt \in ActivePcs
    /\ \A q \in RunIds : q # r => runs[q].pc \notin ActivePcs

SubmittedOnce(r) ==
    \A i, j \in 1..Len(runs[r].submitted) :
        runs[r].submitted[i] = runs[r].submitted[j] => i = j

\* run r has submitted no file that its snapshot knew and that discovery
\* reports as older than the snapshot
UnchangedKnownNotSubmitted(r) ==
    \A i \in 1..Len(runs[r].files) :
        /\ runs[r].files[i].uri \in runs[r].known0
        /\ runs[r].files[i].modified < runs[r].timestamp
        => runs[r].files[i].uri \notin Range(runs[r].submitted)

ClientAssociations == Settings(TRUE).values["files.associations"]

\* C27: the files.associations list of the configuration stays the list the
\* client supplied, and an indexFiles call uses that list however many full
\* runs came before it.
C27_AssociationsUnchangedByRuns ==
    "files.associations" \in config.has
    => /\ config.values["files.associations"] = ClientAssociations
       /\ \A b \in BatchIds :
             watch[b].ipc # "unused" => watch[b].associations = ClientAssociations
====
